---- MODULE Spec2Model ----
(***************************************************************************)
(* Task rewards engine of aio-base-backend (src/src/task_rewards.rs):      *)
(* task registry, payment ledger, per-wallet task state machine, epoch     *)
(* Merkle snapshot builder, proof generator and claim-ticket lifecycle.    *)
(*                                                                         *)
(* Every exported function of the module is one action.  The canister      *)
(* executes one call at a time, so an action is one whole call.            *)
(*                                                                         *)
(* SHA-256 is modelled as a collision-free constructor of terms: a digest  *)
(* is the sequence of numbers that was hashed, and the byte-wise order of  *)
(* digests is a fixed total order on those terms that is unrelated to the  *)
(* order of the hashed contents.  Reward amounts in the model stay far     *)
(* below 2^64 and leaf indices far below 2^32, so u64 additions do not     *)
(* wrap and the `index as u32` cast keeps the index.                       *)
(***************************************************************************)
EXTENDS Integers, Sequences, FiniteSets, TLC

\* ---------------------------------------------------------------- bounds

\* Length the payment ledger may reach.
MaxPayments == 1

\* Number of calls a behaviour of SpecPair makes.
MaxPairCalls == 5

\* Number of calls a behaviour of SpecTree makes.
MaxTreeCalls == 8

\* Number of calls a behaviour of SpecCrash makes.
MaxCrashCalls == 5

\* Number of calls a behaviour of SpecScenario makes.
MaxScenarioCalls == 6

\* ------------------------------------------------------- input domains

\* Option<T>
None == <<>>
Some(x) == <<x>>

\* Wallet strings in ascending String order (uppercase sorts before lowercase).
\* "bad" is not the base58 encoding of 32 bytes; the others are.
WalletOrder == <<"W1", "W2", "W3", "W4", "W5", "bad">>

AllWallets == {WalletOrder[i] : i \in 1..Len(WalletOrder)}

WalletRank(w) == CHOOSE i \in 1..Len(WalletOrder) : WalletOrder[i] = w

\* a.wallet.cmp(&b.wallet) as a strict order
WalletLess(a, b) == WalletRank(a) < WalletRank(b)

\* The wallets the callers use: in Spec one well-formed and one malformed
\* address, in SpecPair two well-formed ones, in SpecTree five.
Wallets == {"W1", "bad"}

PairWallets == {"W1", "W2"}

TreeWallets == {"W1", "W2", "W3", "W4", "W5"}

\* Task ids in ascending String order, as the registry map iterates them.
TaskOrder == <<"T1", "T2">>

TaskIds == {TaskOrder[i] : i \in 1..Len(TaskOrder)}

TaskRank(t) == CHOOSE i \in 1..Len(TaskOrder) : TaskOrder[i] = t

Epochs == {1, 2}

\* Argument lists of init_task_contract: the first defines both tasks, the
\* second edits the reward of T1.
DefineBoth ==
    << [taskid |-> "T1", reward |-> 1, payfor |-> Some("P")],
       [taskid |-> "T2", reward |-> 2, payfor |-> None] >>

EditT1 == << [taskid |-> "T1", reward |-> 0, payfor |-> Some("P")] >>

TaskLists == {DefineBoth, EditT1}

\* payfor arguments of record_payment
Payfors == {None, Some("P")}

\* caller-supplied timestamps, evidence, amounts and references
CompleteTimestamps == {5}

PaymentTimestamps == {6}

Evidences == {Some("ev")}

AmountsPaid == {10}

TxRefs == {"tx"}

TxSigs == {Some("sig")}

\* values of ic_cdk::api::time()
Times == {9}

\* ------------------------------------------------------------ statuses

NotStarted == "NotStarted"
InProgress == "InProgress"
Completed == "Completed"
RewardPrepared == "RewardPrepared"
TicketIssued == "TicketIssued"
Claimed == "Claimed"

Success == "Success"
Failed == "Failed"

\* ------------------------------------------------------ generic helpers

RECURSIVE SumSeq(_)
SumSeq(s) == IF s = <<>> THEN 0 ELSE Head(s) + SumSeq(Tail(s))

MapSeq(s, F(_)) == [i \in 1..Len(s) |-> F(s[i])]

\* BTreeMap::insert
MapInsert(m, k, v) == [x \in DOMAIN m \cup {k} |-> IF x = k THEN v ELSE m[x]]

EmptyMap == <<>>

\* The keys S in ascending rank, as a sequence (the order a map iterates in).
Ascending(S, Rank(_)) ==
    [i \in 1..Cardinality(S) |->
        CHOOSE x \in S : Cardinality({y \in S : Rank(y) < Rank(x)}) = i - 1]

\* ----------------------------------------------------------- SHA-256 model

\* Position of a digest in the byte-wise order: a scramble of its contents.
RECURSIVE DigestMix(_, _, _)
DigestMix(h, i, acc) ==
    IF i > Len(h) THEN acc
    ELSE DigestMix(h, i + 1, (acc * 31 + h[i] * 7 + i) % 1009)

RECURSIVE LexLess(_, _)
LexLess(a, b) ==
    IF a = <<>> THEN b # <<>>
    ELSE IF b = <<>> THEN FALSE
    ELSE IF Head(a) # Head(b) THEN Head(a) < Head(b)
    ELSE LexLess(Tail(a), Tail(b))

\* left <= right on [u8; 32]
HashLeq(left, right) ==
    LET dl == DigestMix(left, 1, 0)
        dr == DigestMix(right, 1, 0)
    IN  IF dl # dr THEN dl < dr ELSE left = right \/ LexLess(left, right)

\* decode_wallet_base58: the 32-byte key, or Err for a malformed address
WalletKey(w) ==
    CASE w = "W1" -> 41
      [] w = "W2" -> 17
      [] w = "W3" -> 33
      [] w = "W4" -> 25
      [] w = "W5" -> 50
      [] OTHER -> 0

decode_wallet_base58(wallet) ==
    IF wallet \in AllWallets /\ wallet # "bad"
    THEN [ok |-> TRUE, bytes |-> WalletKey(wallet)]
    ELSE [ok |-> FALSE, bytes |-> 0]

compute_leaf_hash(epoch, index, wallet_bytes, amount) ==
    <<0, epoch, index, wallet_bytes, amount>>

compute_parent_hash_unsorted(left, right) == <<1>> \o left \o right

compute_parent_hash(left, right) ==
    IF HashLeq(left, right)
    THEN <<1>> \o left \o right
    ELSE <<1>> \o right \o left

\* ------------------------------------------------------------------ state

VARIABLES
    TASK_CONTRACT,        \* taskid -> TaskContractItem
    USER_TASKS,           \* wallet -> UserTaskState
    PAYMENTS,             \* append-only Vec<PaymentRecord>
    EPOCH_META,           \* epoch -> MerkleSnapshotMeta
    EPOCH_WALLET_INDEX,   \* <<epoch, wallet>> -> <<index, amount>>
    EPOCH_LAYERS,         \* flat Vec<MerkleHash>; position p is element p + 1
    EPOCH_LAYER_OFFSETS,  \* <<epoch, layer_id>> -> LayerOffset
    calls,                \* calls made so far, counted where they are bounded
    ret                   \* the last call: its name, arguments and result

store == <<TASK_CONTRACT, USER_TASKS, PAYMENTS, EPOCH_META,
           EPOCH_WALLET_INDEX, EPOCH_LAYERS, EPOCH_LAYER_OFFSETS>>

vars == <<TASK_CONTRACT, USER_TASKS, PAYMENTS, EPOCH_META,
          EPOCH_WALLET_INDEX, EPOCH_LAYERS, EPOCH_LAYER_OFFSETS, calls, ret>>

\* Number of tasks whose status differs between two values of USER_TASKS.
Moves(before, after) ==
    Cardinality({x \in {<<w, i>> : w \in DOMAIN before, i \in 1..Len(TaskOrder)} :
        /\ x[1] \in DOMAIN after
        /\ x[2] <= Len(before[x[1]].tasks)
        /\ x[2] <= Len(after[x[1]].tasks)
        /\ before[x[1]].tasks[x[2]].status # after[x[1]].tasks[x[2]].status})

\* History kept with the last call: the wallets whose last report that moved
\* a ticket was a failure.
FailedAfter(op, wallet, arg, res, moved) ==
    IF op = "mark_claim_result" /\ res = "Ok" /\ moved > 0
    THEN IF arg = "Failed" THEN ret.failed \cup {wallet}
         ELSE ret.failed \ {wallet}
    ELSE ret.failed

\* The record of a call.  Fields a call does not have hold "-" or 0; val is
\* the returned value wrapped in a sequence, empty for () and for errors;
\* moved is the number of task statuses the call changed.
Call(op, admin, wallet, taskid, epoch, arg, res, val, users_after) ==
    [op |-> op, admin |-> admin, wallet |-> wallet, taskid |-> taskid,
     epoch |-> epoch, arg |-> arg, res |-> res, val |-> val,
     moved |-> Moves(USER_TASKS, users_after),
     failed |-> FailedAfter(op, wallet, arg, res,
                            Moves(USER_TASKS, users_after))]

Init ==
    /\ TASK_CONTRACT = EmptyMap
    /\ USER_TASKS = EmptyMap
    /\ PAYMENTS = <<>>
    /\ EPOCH_META = EmptyMap
    /\ EPOCH_WALLET_INDEX = EmptyMap
    /\ EPOCH_LAYERS = <<>>
    /\ EPOCH_LAYER_OFFSETS = EmptyMap
    /\ calls = 0
    /\ ret = [op |-> "init", admin |-> FALSE, wallet |-> "-", taskid |-> "-",
              epoch |-> 0, arg |-> "-", res |-> "Ok", val |-> <<>>,
              moved |-> 0, failed |-> {}]

\* ------------------------------------------------------ task state helpers

compute_total_unclaimed(tasks) ==
    SumSeq(MapSeq(tasks, LAMBDA t :
        IF t.status # Claimed /\ t.status \in {RewardPrepared, TicketIssued}
        THEN t.reward_amount ELSE 0))

\* The registry's items in map order.
ContractItems(contract) ==
    MapSeq(Ascending(DOMAIN contract, TaskRank),
           LAMBDA k : contract[k])

NewUserTaskStateCompleted(contract, wallet) ==
    LET tasks == MapSeq(ContractItems(contract), LAMBDA item :
                    [taskid |-> item.taskid, status |-> Completed,
                     completed_at |-> 0, reward_amount |-> item.reward,
                     evidence |-> None])
    IN  [wallet |-> wallet, tasks |-> tasks,
         total_unclaimed |-> compute_total_unclaimed(tasks)]

\* The UserTaskState get_or_init_user_tasks builds for an untracked wallet.
NewUserTaskState(contract, wallet) ==
    LET tasks == MapSeq(ContractItems(contract), LAMBDA item :
                    [taskid |-> item.taskid, status |-> NotStarted,
                     completed_at |-> 0, reward_amount |-> item.reward,
                     evidence |-> None])
    IN  [wallet |-> wallet, tasks |-> tasks,
         total_unclaimed |-> compute_total_unclaimed(tasks)]

UserTasksAlwaysInit(users, contract, wallet) ==
    MapInsert(users, wallet, NewUserTaskState(contract, wallet))

\* USER_TASKS after get_or_init_user_tasks(wallet)
UserTasksAfterInit(users, contract, wallet) ==
    IF wallet \in DOMAIN users THEN users
    ELSE MapInsert(users, wallet, NewUserTaskState(contract, wallet))

\* Index of the first element of s that satisfies P, or 0.
FirstIndex(s, P(_)) ==
    IF \E i \in 1..Len(s) : P(s[i])
    THEN CHOOSE i \in 1..Len(s) : P(s[i]) /\ \A j \in 1..(i - 1) : ~P(s[j])
    ELSE 0

StoreTasksStaleTotal(users, wallet, tasks) ==
    MapInsert(users, wallet, [users[wallet] EXCEPT !.tasks = tasks])

\* map.insert(wallet, state) with the cached total recomputed from tasks
StoreTasks(users, wallet, tasks) ==
    MapInsert(users, wallet,
        [wallet |-> users[wallet].wallet, tasks |-> tasks,
         total_unclaimed |-> compute_total_unclaimed(tasks)])

\* ------------------------------------------------------ init_task_contract

ReplaceAll(contract, tasks) ==
    [k \in {tasks[i].taskid : i \in 1..Len(tasks)} |->
        tasks[CHOOSE i \in 1..Len(tasks) :
                 /\ tasks[i].taskid = k
                 /\ \A j \in (i + 1)..Len(tasks) : tasks[j].taskid # k]]

\* store.insert(task.taskid, task) for every task, in order
RECURSIVE InsertAll(_, _)
InsertAll(contract, tasks) ==
    IF tasks = <<>> THEN contract
    ELSE InsertAll(MapInsert(contract, Head(tasks).taskid, Head(tasks)),
                   Tail(tasks))

init_task_contract(is_controller, tasks) ==
    IF ~is_controller
    THEN /\ ret' = Call("init_task_contract", is_controller, "-", "-", 0,
                        tasks, "PermissionDenied", <<>>, USER_TASKS)
         /\ UNCHANGED store
    ELSE /\ TASK_CONTRACT' = InsertAll(TASK_CONTRACT, tasks)
         /\ ret' = Call("init_task_contract", is_controller, "-", "-", 0,
                        tasks, "Ok", <<>>, USER_TASKS)
         /\ UNCHANGED <<USER_TASKS, PAYMENTS, EPOCH_META, EPOCH_WALLET_INDEX,
                        EPOCH_LAYERS, EPOCH_LAYER_OFFSETS>>

\* -------------------------------------------------- get_or_init_user_tasks

\* A malformed wallet is only logged; the state is created all the same.
get_or_init_user_tasks(wallet) ==
    LET users == UserTasksAfterInit(USER_TASKS, TASK_CONTRACT, wallet)
    IN  /\ USER_TASKS' = users
        /\ ret' = Call("get_or_init_user_tasks", FALSE, wallet, "-", 0,
                       IF wallet \in DOMAIN USER_TASKS THEN "tracked"
                       ELSE "untracked",
                       "Ok", <<users[wallet]>>, users)
        /\ UNCHANGED <<TASK_CONTRACT, PAYMENTS, EPOCH_META, EPOCH_WALLET_INDEX,
                       EPOCH_LAYERS, EPOCH_LAYER_OFFSETS>>

\* ---------------------------------------------------------- record_payment

\* The taskid of the first registry item whose payfor tag is payfor_str.
MatchingTask(contract, payfor_str) ==
    LET items == ContractItems(contract)
        i == FirstIndex(items, LAMBDA item : item.payfor = Some(payfor_str))
    IN  IF i = 0 THEN None ELSE Some(items[i].taskid)

\* The loop over state.tasks: the first task with this id that is NotStarted
\* or InProgress becomes Completed at ts; reward_amount is left as it is.
PaymentCompletes(tasks, taskid, ts) ==
    LET i == FirstIndex(tasks, LAMBDA t :
                 t.taskid = taskid /\ t.status \in {NotStarted, InProgress})
    IN  IF i = 0 THEN tasks
        ELSE [tasks EXCEPT ![i] = [@ EXCEPT !.status = Completed,
                                            !.completed_at = ts]]

record_payment(wallet, amount_paid, tx_ref, ts, payfor) ==
    LET call(res, after) == Call("record_payment", FALSE, wallet, "-", 0,
                                 [payfor |-> payfor, ts |-> ts], res, <<>>,
                                 after)
        payment == [wallet |-> wallet, amount_paid |-> amount_paid,
                    tx_ref |-> tx_ref, ts |-> ts, payfor |-> payfor]
        matching_task == IF payfor = None THEN None
                         ELSE MatchingTask(TASK_CONTRACT, payfor[1])
        users == UserTasksAfterInit(USER_TASKS, TASK_CONTRACT, wallet)
    IN  IF ~decode_wallet_base58(wallet).ok
        THEN /\ ret' = call("InvalidAddress", USER_TASKS)
             /\ UNCHANGED store
        ELSE /\ Len(PAYMENTS) < MaxPayments
             /\ PAYMENTS' = Append(PAYMENTS, payment)
             /\ USER_TASKS' =
                  IF matching_task = None THEN USER_TASKS
                  ELSE StoreTasks(users, wallet,
                          PaymentCompletes(users[wallet].tasks,
                                           matching_task[1], ts))
             /\ ret' = call("Ok", USER_TASKS')
             /\ UNCHANGED <<TASK_CONTRACT, EPOCH_META, EPOCH_WALLET_INDEX,
                            EPOCH_LAYERS, EPOCH_LAYER_OFFSETS>>

\* ----------------------------------------------------------- complete_task

CompletesAnyStatus(task, reward, evidence, ts) ==
    [found |-> TRUE,
     task |-> [task EXCEPT !.status = Completed, !.completed_at = ts,
                           !.reward_amount = reward, !.evidence = evidence]]

\* The closure applied to the task found by id.
Completes(task, reward, evidence, ts) ==
    IF task.status = NotStarted \/ task.status = InProgress
    THEN [found |-> TRUE,
          task |-> [task EXCEPT !.status = Completed, !.completed_at = ts,
                                !.reward_amount = reward,
                                !.evidence = evidence]]
    ELSE [found |-> FALSE, task |-> task]

complete_task(wallet, taskid, evidence, ts) ==
    LET call(res, after) == Call("complete_task", FALSE, wallet, taskid, 0,
                                 [evidence |-> evidence, ts |-> ts], res,
                                 <<>>, after)
        users == UserTasksAfterInit(USER_TASKS, TASK_CONTRACT, wallet)
        tasks == users[wallet].tasks
        i == FirstIndex(tasks, LAMBDA t : t.taskid = taskid)
        done == Completes(tasks[i], TASK_CONTRACT[taskid].reward, evidence, ts)
    IN  IF ~decode_wallet_base58(wallet).ok
        THEN /\ ret' = call("InvalidAddress", USER_TASKS)
             /\ UNCHANGED store
        ELSE IF taskid \notin DOMAIN TASK_CONTRACT
        THEN /\ ret' = call("NotFound", USER_TASKS)
             /\ UNCHANGED store
        ELSE IF i = 0 \/ ~done.found
        THEN \* "not found or already completed for wallet"; the state
             \* get_or_init_user_tasks may have created stays
             /\ USER_TASKS' = users
             /\ ret' = call("InvalidState", users)
             /\ UNCHANGED <<TASK_CONTRACT, PAYMENTS, EPOCH_META,
                            EPOCH_WALLET_INDEX, EPOCH_LAYERS,
                            EPOCH_LAYER_OFFSETS>>
        ELSE /\ USER_TASKS' = StoreTasks(users, wallet,
                                  [tasks EXCEPT ![i] = done.task])
             /\ ret' = call("Ok", USER_TASKS')
             /\ UNCHANGED <<TASK_CONTRACT, PAYMENTS, EPOCH_META,
                            EPOCH_WALLET_INDEX, EPOCH_LAYERS,
                            EPOCH_LAYER_OFFSETS>>

\* ---------------------------------------------------- build_epoch_snapshot

\* total_amount of one wallet: the rewards of its Completed tasks
CompletedTotalAll(tasks) ==
    SumSeq(MapSeq(tasks, LAMBDA t : t.reward_amount))

CompletedTotal(tasks) ==
    SumSeq(MapSeq(tasks, LAMBDA t :
        IF t.status = Completed THEN t.reward_amount ELSE 0))

IncludedAlways(total_amount) == TRUE

\* if total_amount > 0
Included(total_amount) == total_amount > 0

\* The entries pushed while iterating USER_TASKS, index still 0.
CollectEntries(users, epoch) ==
    SelectSeq(
        MapSeq(Ascending(DOMAIN users, WalletRank), LAMBDA w :
            [epoch |-> epoch, index |-> 0, wallet |-> w,
             amount |-> CompletedTotal(users[w].tasks)]),
        LAMBDA e : Included(e.amount))

\* entries.sort_by(|a, b| a.wallet.cmp(&b.wallet)); no two entries share a wallet
SortEntries(entries) ==
    [i \in 1..Len(entries) |->
        entries[CHOOSE k \in 1..Len(entries) :
            Cardinality({j \in 1..Len(entries) :
                WalletLess(entries[j].wallet, entries[k].wallet)}) = i - 1]]

AssignIndicesFromOne(entries) ==
    [i \in 1..Len(entries) |-> [entries[i] EXCEPT !.index = i]]

\* entry.index = idx as u64
AssignIndices(entries) ==
    [i \in 1..Len(entries) |-> [entries[i] EXCEPT !.index = i - 1]]

LeafHashes(entries) ==
    MapSeq(entries, LAMBDA e :
        compute_leaf_hash(e.epoch, e.index,
                          decode_wallet_base58(e.wallet).bytes, e.amount))

NextLayerDropOdd(current_layer) ==
    [k \in 1..(Len(current_layer) \div 2) |->
        compute_parent_hash(current_layer[2 * k - 1], current_layer[2 * k])]

\* One pass of current_layer.chunks(2): a last chunk of one node is hashed
\* with itself.
NextLayer(current_layer) ==
    [k \in 1..((Len(current_layer) + 1) \div 2) |->
        IF 2 * k <= Len(current_layer)
        THEN compute_parent_hash(current_layer[2 * k - 1], current_layer[2 * k])
        ELSE compute_parent_hash(current_layer[2 * k - 1],
                                 current_layer[2 * k - 1])]

\* all_layers: the leaves, then each parent layer up to the root
RECURSIVE AllLayers(_)
AllLayers(current_layer) ==
    IF Len(current_layer) > 1
    THEN <<current_layer>> \o AllLayers(NextLayer(current_layer))
    ELSE <<current_layer>>

RECURSIVE Flatten(_)
Flatten(layers) ==
    IF layers = <<>> THEN <<>> ELSE Head(layers) \o Flatten(Tail(layers))

\* EPOCH_LAYER_OFFSETS after the inserts for all_layers, stored from base_offset
RECURSIVE InsertOffsets(_, _, _, _, _)
InsertOffsets(offsets, epoch, all_layers, layer_id, offset) ==
    IF layer_id >= Len(all_layers) THEN offsets
    ELSE InsertOffsets(
            MapInsert(offsets, <<epoch, layer_id>>,
                      [start |-> offset, len |-> Len(all_layers[layer_id + 1])]),
            epoch, all_layers, layer_id + 1,
            offset + Len(all_layers[layer_id + 1]))

RECURSIVE InsertIndex(_, _, _)
InsertIndex(index, epoch, entries) ==
    IF entries = <<>> THEN index
    ELSE InsertIndex(
            MapInsert(index, <<epoch, Head(entries).wallet>>,
                      <<Head(entries).index, Head(entries).amount>>),
            epoch, Tail(entries))

PrepareTasksAll(tasks) ==
    MapSeq(tasks, LAMBDA t : [t EXCEPT !.status = RewardPrepared])

\* Completed -> RewardPrepared on every task of one included wallet
PrepareTasks(tasks) ==
    MapSeq(tasks, LAMBDA t :
        IF t.status = Completed THEN [t EXCEPT !.status = RewardPrepared]
        ELSE t)

RECURSIVE PrepareUsers(_, _)
PrepareUsers(users, entries) ==
    IF entries = <<>> THEN users
    ELSE LET w == Head(entries).wallet
         IN  PrepareUsers(
                IF w \in DOMAIN users
                THEN StoreTasks(users, w, PrepareTasks(users[w].tasks))
                ELSE users,
                Tail(entries))

ReplaceLayers(hashes, all_layers) == Flatten(all_layers)

\* vec.push of every hash of every layer, in order
AppendLayers(hashes, all_layers) == hashes \o Flatten(all_layers)

EpochNeverExists(meta, epoch) == FALSE

\* EPOCH_META.contains_key(&epoch)
EpochExists(meta, epoch) == epoch \in DOMAIN meta

build_epoch_snapshot(is_controller, epoch, time) ==
    LET call(res, val) == Call("build_epoch_snapshot", is_controller, "-", "-",
                               epoch, "-", res, val,
                               IF res = "Ok" THEN USER_TASKS' ELSE USER_TASKS)
        entries == AssignIndices(SortEntries(CollectEntries(USER_TASKS, epoch)))
        all_layers == AllLayers(LeafHashes(entries))
        root == all_layers[Len(all_layers)][1]
        base_offset == Len(EPOCH_LAYERS)
        meta == [epoch |-> epoch, root |-> root, leaves_count |-> Len(entries),
                 locked |-> TRUE, created_at |-> time]
    IN  IF ~is_controller
        THEN /\ ret' = call("PermissionDenied", <<>>)
             /\ UNCHANGED store
        ELSE IF EpochExists(EPOCH_META, epoch)
        THEN /\ ret' = call("AlreadyExists", <<>>)
             /\ UNCHANGED store
        ELSE IF entries = <<>>
        THEN /\ ret' = call("Empty", <<>>)
             /\ UNCHANGED store
        ELSE IF \E i \in 1..Len(entries) :
                    ~decode_wallet_base58(entries[i].wallet).ok
        THEN /\ ret' = call("InvalidAddress", <<>>)
             /\ UNCHANGED store
        ELSE /\ EPOCH_LAYERS' = AppendLayers(EPOCH_LAYERS, all_layers)
             /\ EPOCH_LAYER_OFFSETS' =
                  InsertOffsets(EPOCH_LAYER_OFFSETS, epoch, all_layers, 0,
                                base_offset)
             /\ EPOCH_WALLET_INDEX' =
                  InsertIndex(EPOCH_WALLET_INDEX, epoch, entries)
             /\ USER_TASKS' = PrepareUsers(USER_TASKS, entries)
             /\ EPOCH_META' = MapInsert(EPOCH_META, epoch, meta)
             /\ ret' = call("Ok", <<meta>>)
             /\ UNCHANGED <<TASK_CONTRACT, PAYMENTS>>

\* The smaller of two numbers, and a number cut to 0..limit.
Min(a, b) == IF a < b THEN a ELSE b

Clamp(n, limit) == IF n < 0 THEN 0 ELSE Min(n, limit)

\* A build by a controller that passes its checks and stops after the first
\* writes of its writes, which stay: the pushes of the hashes (lines 680-685),
\* then the inserts of the layer offsets (689-703), of the index entries
\* (711-716) and of the prepared task states (722-732), never the metadata.
\* In the code the `?` at line 683 returns so between two pushes of hashes;
\* a stop at a later write is a call cut short with its writes kept.
interrupted_build(epoch, time, writes) ==
    LET entries == AssignIndices(SortEntries(CollectEntries(USER_TASKS, epoch)))
        all_layers == AllLayers(LeafHashes(entries))
        hashes == Flatten(all_layers)
        base_offset == Len(EPOCH_LAYERS)
        pushed == Clamp(writes, Len(hashes))
        offsets == Clamp(writes - Len(hashes), Len(all_layers))
        indexed == Clamp(writes - Len(hashes) - Len(all_layers), Len(entries))
        prepared == Clamp(writes - Len(hashes) - Len(all_layers)
                            - Len(entries), Len(entries))
        stage == IF prepared > 0 THEN "tasks"
                 ELSE IF indexed > 0 THEN "index"
                 ELSE IF offsets > 0 THEN "offsets" ELSE "hashes"
    IN  /\ ~EpochExists(EPOCH_META, epoch)
        /\ entries # <<>>
        /\ \A i \in 1..Len(entries) : decode_wallet_base58(entries[i].wallet).ok
        /\ writes <= Len(hashes) + Len(all_layers) + 2 * Len(entries)
        /\ EPOCH_LAYERS' = EPOCH_LAYERS \o SubSeq(hashes, 1, pushed)
        /\ EPOCH_LAYER_OFFSETS' =
             InsertOffsets(EPOCH_LAYER_OFFSETS, epoch,
                           SubSeq(all_layers, 1, offsets), 0, base_offset)
        /\ EPOCH_WALLET_INDEX' =
             InsertIndex(EPOCH_WALLET_INDEX, epoch, SubSeq(entries, 1, indexed))
        /\ USER_TASKS' = PrepareUsers(USER_TASKS, SubSeq(entries, 1, prepared))
        /\ ret' = Call("build_epoch_snapshot", TRUE, "-", "-", epoch, stage,
                       "Interrupted", <<>>, USER_TASKS')
        /\ UNCHANGED <<TASK_CONTRACT, PAYMENTS, EPOCH_META>>

\* --------------------------------------------------- generate_merkle_proof

\* The largest layer_id stored for the epoch, 0 when none is.
MaxLayer(offsets, epoch) ==
    LET ids == {k[2] : k \in {x \in DOMAIN offsets : x[1] = epoch}} \cup {0}
    IN  CHOOSE m \in ids : \A i \in ids : i <= m

\* The loop for layer_id in 0..max_layer, from layer_id on.
RECURSIVE ProofFrom(_, _, _, _, _, _, _)
ProofFrom(offsets, hashes, epoch, layer_id, max_layer, current_index, proof) ==
    IF layer_id >= max_layer THEN [ok |-> TRUE, proof |-> proof]
    ELSE IF <<epoch, layer_id>> \notin DOMAIN offsets
    THEN [ok |-> FALSE, proof |-> <<>>]
    ELSE LET sibling_index == IF current_index % 2 = 0
                              THEN current_index + 1
                              ELSE current_index - 1
             layer_offset == offsets[<<epoch, layer_id>>]
             hash_position == IF sibling_index < layer_offset.len
                              THEN layer_offset.start + sibling_index
                              ELSE layer_offset.start + current_index
         IN  IF hash_position >= Len(hashes)
             THEN [ok |-> FALSE, proof |-> <<>>]
             ELSE ProofFrom(offsets, hashes, epoch, layer_id + 1, max_layer,
                            current_index \div 2,
                            Append(proof, hashes[hash_position + 1]))

generate_merkle_proof(offsets, hashes, epoch, leaf_index) ==
    ProofFrom(offsets, hashes, epoch, 0, MaxLayer(offsets, epoch),
              leaf_index, <<>>)

\* -------------------------------------------------------- get_claim_ticket

\* The (epoch, index, amount) of every index entry of the wallet.
WalletEpochs(index, wallet) ==
    {<<k[1], index[k][1], index[k][2]>> :
        k \in {x \in DOMAIN index : x[2] = wallet}}

EarliestEpoch(epochs) == CHOOSE e \in epochs : \A f \in epochs : e[1] <= f[1]

\* epochs[0] after the descending sort by epoch
LatestEpoch(epochs) == CHOOSE e \in epochs : \A f \in epochs : f[1] <= e[1]

AlreadyIssuedNever(users, wallet) == FALSE

IssuedOnly(users, wallet) ==
    /\ wallet \in DOMAIN users
    /\ \E i \in 1..Len(users[wallet].tasks) :
          users[wallet].tasks[i].status = TicketIssued

\* already_issued
AlreadyIssued(users, wallet) ==
    /\ wallet \in DOMAIN users
    /\ \E i \in 1..Len(users[wallet].tasks) :
          \/ users[wallet].tasks[i].status = TicketIssued
          \/ users[wallet].tasks[i].status = Claimed

IssueFirstTask(tasks) ==
    LET i == FirstIndex(tasks, LAMBDA t : t.status = RewardPrepared)
    IN  IF i = 0 THEN tasks
        ELSE [tasks EXCEPT ![i] = [@ EXCEPT !.status = TicketIssued]]

\* RewardPrepared -> TicketIssued on every task of the wallet
IssueTasks(tasks) ==
    MapSeq(tasks, LAMBDA t :
        IF t.status = RewardPrepared THEN [t EXCEPT !.status = TicketIssued]
        ELSE t)

get_claim_ticket(wallet) ==
    LET call(res, val) == Call("get_claim_ticket", FALSE, wallet, "-", 0, "-",
                               res, val,
                               IF res = "Ok" THEN USER_TASKS' ELSE USER_TASKS)
        epochs == WalletEpochs(EPOCH_WALLET_INDEX, wallet)
        latest == LatestEpoch(epochs)
        epoch == latest[1]
        index == latest[2]
        amount == latest[3]
        proof == generate_merkle_proof(EPOCH_LAYER_OFFSETS, EPOCH_LAYERS,
                                       epoch, index)
        ticket == [epoch |-> epoch, index |-> index, wallet |-> wallet,
                   amount |-> amount, proof |-> proof.proof,
                   root |-> EPOCH_META[epoch].root]
    IN  IF ~decode_wallet_base58(wallet).ok
        THEN /\ ret' = call("InvalidAddress", <<>>)
             /\ UNCHANGED store
        ELSE IF epochs = {}
        THEN /\ ret' = call("NotFound", <<>>)
             /\ UNCHANGED store
        ELSE IF AlreadyIssued(USER_TASKS, wallet)
        THEN /\ ret' = call("InvalidState", <<>>)
             /\ UNCHANGED store
        ELSE IF epoch \notin DOMAIN EPOCH_META \/ ~proof.ok
        THEN /\ ret' = call("NotFound", <<>>)
             /\ UNCHANGED store
        ELSE /\ USER_TASKS' =
                  IF wallet \in DOMAIN USER_TASKS
                  THEN StoreTasks(USER_TASKS, wallet,
                                  IssueTasks(USER_TASKS[wallet].tasks))
                  ELSE USER_TASKS
             /\ ret' = call("Ok", <<ticket>>)
             /\ UNCHANGED <<TASK_CONTRACT, PAYMENTS, EPOCH_META,
                            EPOCH_WALLET_INDEX, EPOCH_LAYERS,
                            EPOCH_LAYER_OFFSETS>>

\* ------------------------------------------------------- mark_claim_result

SettleToCompleted(task, status) ==
    IF task.status # TicketIssued THEN task
    ELSE IF status = Success THEN [task EXCEPT !.status = Claimed]
    ELSE [task EXCEPT !.status = Completed]

SettleAll(task, status) ==
    IF status = Success THEN [task EXCEPT !.status = Claimed]
    ELSE [task EXCEPT !.status = RewardPrepared]

\* The two match arms, on one task.
Settle(task, status) ==
    IF task.status # TicketIssued THEN task
    ELSE IF status = Success THEN [task EXCEPT !.status = Claimed]
    ELSE [task EXCEPT !.status = RewardPrepared]

SettleTasksOfEpoch(tasks, epoch, status) ==
    IF epoch \in DOMAIN EPOCH_META
    THEN MapSeq(tasks, LAMBDA t : Settle(t, status))
    ELSE tasks

\* for task in user_state.tasks.iter_mut(): the epoch is not consulted.
SettleTasks(tasks, epoch, status) ==
    MapSeq(tasks, LAMBDA t : Settle(t, status))

mark_claim_result(wallet, epoch, status, tx_sig) ==
    LET call(res) == Call("mark_claim_result", FALSE, wallet, "-", epoch,
                          status, res, <<>>,
                          IF res = "Ok" THEN USER_TASKS' ELSE USER_TASKS)
    IN  IF ~decode_wallet_base58(wallet).ok
        THEN /\ ret' = call("InvalidAddress")
             /\ UNCHANGED store
        ELSE IF wallet \notin DOMAIN USER_TASKS
        THEN /\ ret' = call("NotFound")
             /\ UNCHANGED store
        ELSE /\ USER_TASKS' =
                  StoreTasks(USER_TASKS, wallet,
                      SettleTasks(USER_TASKS[wallet].tasks, epoch, status))
             /\ ret' = call("Ok")
             /\ UNCHANGED <<TASK_CONTRACT, PAYMENTS, EPOCH_META,
                            EPOCH_WALLET_INDEX, EPOCH_LAYERS,
                            EPOCH_LAYER_OFFSETS>>

\* ---------------------------------------------------------- specifications

\* Spec: any number of calls, by callers that use Wallets.

DefineTasks ==
    /\ \E c \in BOOLEAN, tasks \in TaskLists : init_task_contract(c, tasks)
    /\ UNCHANGED calls

GetOrInitTasks ==
    /\ \E w \in Wallets : get_or_init_user_tasks(w)
    /\ UNCHANGED calls

RecordPayment ==
    /\ \E w \in Wallets, a \in AmountsPaid, tx \in TxRefs,
          ts \in PaymentTimestamps, pf \in Payfors :
           record_payment(w, a, tx, ts, pf)
    /\ UNCHANGED calls

CompleteTask ==
    /\ \E w \in Wallets, t \in TaskIds, ev \in Evidences,
          ts \in CompleteTimestamps :
           complete_task(w, t, ev, ts)
    /\ UNCHANGED calls

BuildSnapshot ==
    /\ \E c \in BOOLEAN, e \in Epochs, time \in Times :
           build_epoch_snapshot(c, e, time)
    /\ UNCHANGED calls

IssueTicket ==
    /\ \E w \in Wallets : get_claim_ticket(w)
    /\ UNCHANGED calls

ReportClaimResult ==
    /\ \E w \in Wallets, e \in Epochs, st \in {Success, Failed},
          sig \in TxSigs :
           mark_claim_result(w, e, st, sig)
    /\ UNCHANGED calls

Next ==
    \/ DefineTasks
    \/ GetOrInitTasks
    \/ RecordPayment
    \/ CompleteTask
    \/ BuildSnapshot
    \/ IssueTicket
    \/ ReportClaimResult

Spec == Init /\ [][Next]_vars

\* SpecPair: at most MaxPairCalls calls, by callers that use PairWallets.

PairTick == calls < MaxPairCalls /\ calls' = calls + 1

PairDefineTasks ==
    /\ PairTick
    /\ \E c \in BOOLEAN, tasks \in TaskLists : init_task_contract(c, tasks)

PairGetOrInitTasks ==
    /\ PairTick
    /\ \E w \in PairWallets : get_or_init_user_tasks(w)

PairRecordPayment ==
    /\ PairTick
    /\ \E w \in PairWallets, a \in AmountsPaid, tx \in TxRefs,
          ts \in PaymentTimestamps, pf \in Payfors :
           record_payment(w, a, tx, ts, pf)

PairCompleteTask ==
    /\ PairTick
    /\ \E w \in PairWallets, t \in TaskIds, ev \in Evidences,
          ts \in CompleteTimestamps :
           complete_task(w, t, ev, ts)

PairBuildSnapshot ==
    /\ PairTick
    /\ \E c \in BOOLEAN, e \in Epochs, time \in Times :
           build_epoch_snapshot(c, e, time)

PairIssueTicket ==
    /\ PairTick
    /\ \E w \in PairWallets : get_claim_ticket(w)

PairReportClaimResult ==
    /\ PairTick
    /\ \E w \in PairWallets, e \in Epochs, st \in {Success, Failed},
          sig \in TxSigs :
           mark_claim_result(w, e, st, sig)

PairNext ==
    \/ PairDefineTasks
    \/ PairGetOrInitTasks
    \/ PairRecordPayment
    \/ PairCompleteTask
    \/ PairBuildSnapshot
    \/ PairIssueTicket
    \/ PairReportClaimResult

SpecPair == Init /\ [][PairNext]_vars

\* SpecTree: at most MaxTreeCalls calls that define the tasks, complete T1 for
\* one of TreeWallets, build an epoch or issue a ticket.

TreeTick == calls < MaxTreeCalls /\ calls' = calls + 1

TreeDefineTasks ==
    /\ TreeTick
    /\ init_task_contract(TRUE, DefineBoth)

TreeCompleteTask ==
    /\ TreeTick
    /\ \E w \in TreeWallets, ev \in Evidences, ts \in CompleteTimestamps :
           complete_task(w, "T1", ev, ts)

TreeBuildSnapshot ==
    /\ TreeTick
    /\ \E e \in Epochs, time \in Times : build_epoch_snapshot(TRUE, e, time)

TreeIssueTicket ==
    /\ TreeTick
    /\ \E w \in TreeWallets : get_claim_ticket(w)

TreeNext ==
    \/ TreeDefineTasks
    \/ TreeCompleteTask
    \/ TreeBuildSnapshot
    \/ TreeIssueTicket

SpecTree == Init /\ [][TreeNext]_vars

\* SpecCrash: at most MaxCrashCalls calls by a controller and PairWallets, in
\* which a build may stop after any of its writes.

CrashTick == calls < MaxCrashCalls /\ calls' = calls + 1

\* The writes before the metadata when every wallet of PairWallets has an
\* entry: 3 hashes, 2 layer offsets, 2 index entries and 2 task states.
MaxWrites == 4 * Cardinality(PairWallets) + 1

CrashDefineTasks ==
    /\ CrashTick
    /\ init_task_contract(TRUE, DefineBoth)

CrashCompleteTask ==
    /\ CrashTick
    /\ \E w \in PairWallets, t \in TaskIds, ev \in Evidences,
          ts \in CompleteTimestamps :
           complete_task(w, t, ev, ts)

CrashBuildSnapshot ==
    /\ CrashTick
    /\ \E e \in Epochs, time \in Times : build_epoch_snapshot(TRUE, e, time)

CrashInterruptedBuild ==
    /\ CrashTick
    /\ \E e \in Epochs, time \in Times, writes \in 1..MaxWrites :
           interrupted_build(e, time, writes)

CrashIssueTicket ==
    /\ CrashTick
    /\ \E w \in PairWallets : get_claim_ticket(w)

CrashNext ==
    \/ CrashDefineTasks
    \/ CrashCompleteTask
    \/ CrashBuildSnapshot
    \/ CrashInterruptedBuild
    \/ CrashIssueTicket

SpecCrash == Init /\ [][CrashNext]_vars

\* SpecScenario: at most MaxScenarioCalls calls by a controller and wallet W1
\* over a registry that holds T1 with reward 100.

ScenarioTasks == <<[taskid |-> "T1", reward |-> 100, payfor |-> None]>>

ScenarioTick == calls < MaxScenarioCalls /\ calls' = calls + 1

ScenarioDefineTasks ==
    /\ ScenarioTick
    /\ init_task_contract(TRUE, ScenarioTasks)

ScenarioCompleteTask ==
    /\ ScenarioTick
    /\ \E ev \in Evidences, ts \in CompleteTimestamps :
           complete_task("W1", "T1", ev, ts)

ScenarioBuildSnapshot ==
    /\ ScenarioTick
    /\ \E e \in Epochs, time \in Times : build_epoch_snapshot(TRUE, e, time)

ScenarioIssueTicket ==
    /\ ScenarioTick
    /\ get_claim_ticket("W1")

ScenarioReportClaimResult ==
    /\ ScenarioTick
    /\ \E e \in Epochs, st \in {Success, Failed}, sig \in TxSigs :
           mark_claim_result("W1", e, st, sig)

ScenarioNext ==
    \/ ScenarioDefineTasks
    \/ ScenarioCompleteTask
    \/ ScenarioBuildSnapshot
    \/ ScenarioIssueTicket
    \/ ScenarioReportClaimResult

SpecScenario == Init /\ [][ScenarioNext]_vars

\* ------------------------------------------------------------------ claims

StatusOf(users, w) == MapSeq(users[w].tasks, LAMBDA t : t.status)

HasStatus(users, w, st) ==
    w \in DOMAIN users /\ \E i \in 1..Len(users[w].tasks) :
        users[w].tasks[i].status = st

\* Sum of reward_amount over the tasks whose status is in S.
RewardIn(tasks, S) ==
    SumSeq([i \in 1..Len(tasks) |->
        IF tasks[i].status \in S THEN tasks[i].reward_amount ELSE 0])

\* C1: in every reachable state, the cached total_unclaimed of every tracked
\* wallet is the sum of reward_amount over its tasks that are RewardPrepared
\* or TicketIssued.
C1_TotalUnclaimed ==
    \A w \in DOMAIN USER_TASKS :
        USER_TASKS[w].total_unclaimed =
            RewardIn(USER_TASKS[w].tasks, {RewardPrepared, TicketIssued})

\* A reported failure has moved a ticket back and the wallet's total counts
\* it, next to a claimed-or-completed task that it does not count.
C1_Witness ==
    /\ ret.op = "mark_claim_result" /\ ret.res = "Ok" /\ ret.moved > 0
    /\ USER_TASKS[ret.wallet].total_unclaimed > 0
    /\ HasStatus(USER_TASKS, ret.wallet, Completed)

StatusEdges ==
    { <<NotStarted, Completed>>, <<InProgress, Completed>>,
      <<Completed, RewardPrepared>>, <<RewardPrepared, TicketIssued>>,
      <<TicketIssued, Claimed>>, <<TicketIssued, RewardPrepared>> }

\* C2: every step changes a task's status only along NotStarted->Completed,
\* InProgress->Completed, Completed->RewardPrepared,
\* RewardPrepared->TicketIssued, TicketIssued->Claimed or
\* TicketIssued->RewardPrepared; the last only in mark_claim_result with
\* status Failed; a Claimed task keeps its status; tasks stay where they are.
C2_StatusEdges ==
    [][\A w \in DOMAIN USER_TASKS :
          /\ w \in DOMAIN USER_TASKS'
          /\ Len(USER_TASKS'[w].tasks) = Len(USER_TASKS[w].tasks)
          /\ \A i \in 1..Len(USER_TASKS[w].tasks) :
                LET a == USER_TASKS[w].tasks[i]
                    b == USER_TASKS'[w].tasks[i]
                IN  /\ b.taskid = a.taskid
                    /\ a.status # b.status =>
                          /\ <<a.status, b.status>> \in StatusEdges
                          /\ a.status # Claimed
                          /\ (b.status = RewardPrepared
                                /\ a.status = TicketIssued) =>
                                (/\ ret'.op = "mark_claim_result"
                                 /\ ret'.arg = Failed
                                 /\ ret'.wallet = w)
      ]_vars

\* The backward edge has been taken: a failed claim moved a task to
\* RewardPrepared.
C2_Witness ==
    /\ ret.op = "mark_claim_result" /\ ret.arg = Failed /\ ret.moved > 0
    /\ HasStatus(USER_TASKS, ret.wallet, RewardPrepared)

\* The verifier's parent rule: the hash of the smaller, then the larger.
VerifierParent(a, b) ==
    IF HashLeq(a, b) THEN <<1>> \o a \o b ELSE <<1>> \o b \o a

RECURSIVE FoldProof(_, _)
FoldProof(node, proof) ==
    IF proof = <<>> THEN node
    ELSE FoldProof(VerifierParent(node, Head(proof)), Tail(proof))

\* The leaf hash the verifier computes for the wallet recorded at an index.
LeafOfIndex(e, i) ==
    LET w == CHOOSE x \in AllWallets :
                /\ <<e, x>> \in DOMAIN EPOCH_WALLET_INDEX
                /\ EPOCH_WALLET_INDEX[<<e, x>>][1] = i
    IN  compute_leaf_hash(e, i, decode_wallet_base58(w).bytes,
                          EPOCH_WALLET_INDEX[<<e, w>>][2])

ProofOf(e, i) ==
    generate_merkle_proof(EPOCH_LAYER_OFFSETS, EPOCH_LAYERS, e, i)

\* C3: for every published epoch and every leaf index below its leaf count,
\* the generated proof folded onto the leaf's hash with the verifier's parent
\* rule gives the root in the epoch's metadata.
C3_ProofsRecombine ==
    \A e \in DOMAIN EPOCH_META :
        /\ EPOCH_META[e].leaves_count > 0
        /\ \A i \in 0..(EPOCH_META[e].leaves_count - 1) :
              /\ ProofOf(e, i).ok
              /\ FoldProof(LeafOfIndex(e, i), ProofOf(e, i).proof)
                    = EPOCH_META[e].root

\* An epoch of five leaves: layers of 5, 3, 2 and 1 nodes, so the last node
\* is paired with itself at layers 0 and 1.
C3_Witness ==
    \E e \in DOMAIN EPOCH_META :
        /\ EPOCH_META[e].leaves_count = 5
        /\ Len(ProofOf(e, 4).proof) = 3
        /\ ProofOf(e, 4).proof[1] = LeafOfIndex(e, 4)

\* The single-outstanding-ticket gate of the claim: a task TicketIssued or
\* Claimed.
HoldsTicket(users, w) ==
    HasStatus(users, w, TicketIssued) \/ HasStatus(users, w, Claimed)

\* C4: get_claim_ticket for a wallet that holds a task TicketIssued or
\* Claimed fails InvalidState and changes nothing; a successful
\* get_claim_ticket leaves the wallet holding such a task, and the wallet
\* keeps holding one through every call that is not a mark_claim_result for
\* it, so every get_claim_ticket for it in between fails.
C4_TicketGate ==
    [][\A w \in AllWallets :
          /\ (ret'.op = "get_claim_ticket" /\ ret'.wallet = w
                /\ HoldsTicket(USER_TASKS, w)) =>
                (ret'.res = "InvalidState" /\ UNCHANGED store)
          /\ (ret'.op = "get_claim_ticket" /\ ret'.wallet = w
                /\ ret'.res = "Ok") =>
                HasStatus(USER_TASKS', w, TicketIssued)
          /\ (HoldsTicket(USER_TASKS, w)
                /\ ~(ret'.op = "mark_claim_result" /\ ret'.wallet = w)) =>
                HoldsTicket(USER_TASKS', w)
      ]_vars

\* A second get_claim_ticket has failed while the first ticket is out and a
\* later completion has been prepared by a second epoch.
C4_Witness ==
    /\ ret.op = "get_claim_ticket" /\ ret.res = "InvalidState"
    /\ HasStatus(USER_TASKS, ret.wallet, TicketIssued)
    /\ HasStatus(USER_TASKS, ret.wallet, RewardPrepared)
    /\ Cardinality(DOMAIN EPOCH_META) = 2

\* The keys of a map whose first component is e.
KeysOf(m, e) == {k \in DOMAIN m : k[1] = e}

\* C5: a step changes nothing of an epoch that has metadata: its metadata,
\* its layer offsets and the hashes they address, and its wallet index
\* entries stay, none is added; the hash store only grows at its end.
C5_EpochImmutable ==
    [][/\ \A e \in DOMAIN EPOCH_META :
             /\ e \in DOMAIN EPOCH_META'
             /\ EPOCH_META'[e] = EPOCH_META[e]
             /\ KeysOf(EPOCH_LAYER_OFFSETS', e) = KeysOf(EPOCH_LAYER_OFFSETS, e)
             /\ KeysOf(EPOCH_WALLET_INDEX', e) = KeysOf(EPOCH_WALLET_INDEX, e)
             /\ \A k \in KeysOf(EPOCH_LAYER_OFFSETS, e) :
                   /\ EPOCH_LAYER_OFFSETS'[k] = EPOCH_LAYER_OFFSETS[k]
                   /\ \A j \in 1..EPOCH_LAYER_OFFSETS[k].len :
                         EPOCH_LAYERS'[EPOCH_LAYER_OFFSETS[k].start + j] =
                            EPOCH_LAYERS[EPOCH_LAYER_OFFSETS[k].start + j]
             /\ \A k \in KeysOf(EPOCH_WALLET_INDEX, e) :
                   EPOCH_WALLET_INDEX'[k] = EPOCH_WALLET_INDEX[k]
       /\ Len(EPOCH_LAYERS') >= Len(EPOCH_LAYERS)
       /\ SubSeq(EPOCH_LAYERS', 1, Len(EPOCH_LAYERS)) = EPOCH_LAYERS
      ]_vars

\* A second epoch has been built after the first.
C5_Witness ==
    /\ ret.op = "build_epoch_snapshot" /\ ret.res = "Ok"
    /\ Cardinality(DOMAIN EPOCH_META) = 2
    /\ EPOCH_LAYER_OFFSETS[<<ret.epoch, 0>>].start > 0

\* C6: build_epoch_snapshot by a controller for an epoch that has metadata
\* fails AlreadyExists and changes nothing of the stores.
C6_DuplicateBuild ==
    [][(/\ ret'.op = "build_epoch_snapshot"
        /\ ret'.admin
        /\ ret'.epoch \in DOMAIN EPOCH_META) =>
            (ret'.res = "AlreadyExists" /\ UNCHANGED store)
      ]_vars

\* A duplicate build has failed although a wallet has a task completed with
\* a positive reward since the first build.
C6_Witness ==
    /\ ret.op = "build_epoch_snapshot" /\ ret.res = "AlreadyExists"
    /\ \E w \in DOMAIN USER_TASKS :
          /\ RewardIn(USER_TASKS[w].tasks, {Completed}) > 0
          /\ HasStatus(USER_TASKS, w, RewardPrepared)

\* The status of the wallet's task for the id, "none" when the wallet is
\* tracked without such a task, NotStarted when the wallet is not tracked.
TaskStatusOf(users, w, t) ==
    IF w \notin DOMAIN users THEN NotStarted
    ELSE IF \E i \in 1..Len(users[w].tasks) : users[w].tasks[i].taskid = t
    THEN (CHOOSE x \in {users[w].tasks[i] : i \in 1..Len(users[w].tasks)} :
             x.taskid = t).status
    ELSE "none"

TaskOf(users, w, t) ==
    CHOOSE x \in {users[w].tasks[i] : i \in 1..Len(users[w].tasks)} :
        x.taskid = t

HasTask(users, w, t) ==
    /\ w \in DOMAIN users
    /\ \E i \in 1..Len(users[w].tasks) : users[w].tasks[i].taskid = t

PastCompleted == {Completed, RewardPrepared, TicketIssued, Claimed}

\* C7: complete_task for a well-formed wallet fails NotFound exactly when
\* the task id is not in the registry, fails InvalidState exactly when the
\* wallet's task for the id is Completed or later, and otherwise succeeds and
\* leaves that task Completed with completed_at = ts, the evidence given and
\* the registry's reward.
C7_CompleteTaskOutcome ==
    [][(ret'.op = "complete_task" /\ decode_wallet_base58(ret'.wallet).ok) =>
          LET w == ret'.wallet
              t == ret'.taskid
              past == TaskStatusOf(USER_TASKS, w, t) \in PastCompleted
          IN  /\ (ret'.res = "NotFound") <=> (t \notin DOMAIN TASK_CONTRACT)
              /\ (ret'.res = "InvalidState") <=> past
              /\ (t \in DOMAIN TASK_CONTRACT /\ ~past) =>
                    /\ ret'.res = "Ok"
                    /\ HasTask(USER_TASKS', w, t)
                    /\ TaskOf(USER_TASKS', w, t).status = Completed
                    /\ TaskOf(USER_TASKS', w, t).completed_at = ret'.arg.ts
                    /\ TaskOf(USER_TASKS', w, t).evidence = ret'.arg.evidence
                    /\ TaskOf(USER_TASKS', w, t).reward_amount =
                          TASK_CONTRACT[t].reward
      ]_vars

\* C8: a record_payment whose payfor tag is that of a registry task, for a
\* tracked wallet whose task for it is NotStarted or InProgress, leaves the
\* task Completed with completed_at = ts and the registry's reward.
C8_PaymentPinsReward ==
    [][\A t \in DOMAIN TASK_CONTRACT :
          (/\ ret'.op = "record_payment"
           /\ ret'.res = "Ok"
           /\ ret'.arg.payfor # None
           /\ TASK_CONTRACT[t].payfor = ret'.arg.payfor
           /\ HasTask(USER_TASKS, ret'.wallet, t)
           /\ TaskOf(USER_TASKS, ret'.wallet, t).status
                 \in {NotStarted, InProgress}) =>
              /\ TaskOf(USER_TASKS', ret'.wallet, t).status = Completed
              /\ TaskOf(USER_TASKS', ret'.wallet, t).completed_at = ret'.arg.ts
              /\ TaskOf(USER_TASKS', ret'.wallet, t).reward_amount =
                    TASK_CONTRACT[t].reward
      ]_vars

\* C9: a step keeps the reward_amount of every task that is Completed or
\* later.
C9_PinnedReward ==
    [][\A w \in DOMAIN USER_TASKS :
          \A i \in 1..Len(USER_TASKS[w].tasks) :
              USER_TASKS[w].tasks[i].status \in PastCompleted =>
                  /\ w \in DOMAIN USER_TASKS'
                  /\ i <= Len(USER_TASKS'[w].tasks)
                  /\ USER_TASKS'[w].tasks[i].reward_amount =
                        USER_TASKS[w].tasks[i].reward_amount
      ]_vars

\* The registry reward of a task has been edited after complete_task pinned
\* it: the pinned amount differs from the registry's.
C9_Witness ==
    /\ ret.op = "init_task_contract" /\ ret.res = "Ok"
    /\ \E w \in DOMAIN USER_TASKS :
          \E i \in 1..Len(USER_TASKS[w].tasks) :
              LET task == USER_TASKS[w].tasks[i]
              IN  /\ task.status \in PastCompleted
                  /\ task.evidence # None
                  /\ task.reward_amount # TASK_CONTRACT[task.taskid].reward

\* The wallets a build includes: those whose Completed rewards sum above 0.
Qualifying(users) ==
    {w \in DOMAIN users : RewardIn(users[w].tasks, {Completed}) > 0}

\* C10: a successful build_epoch_snapshot(e) records an index entry for
\* exactly the qualifying wallets, each with the sum of its Completed rewards
\* and with the number of qualifying wallets that sort before it as its
\* index; the leaf stored at that index is the hash of that entry, and the
\* leaf count is the number of qualifying wallets.
C10_BuildEntries ==
    [][(ret'.op = "build_epoch_snapshot" /\ ret'.res = "Ok") =>
          LET e == ret'.epoch
              Q == Qualifying(USER_TASKS)
              Index(w) == Cardinality({v \in Q : WalletLess(v, w)})
              Amount(w) == RewardIn(USER_TASKS[w].tasks, {Completed})
              leaves == EPOCH_LAYER_OFFSETS'[<<e, 0>>]
          IN  /\ {k[2] : k \in KeysOf(EPOCH_WALLET_INDEX', e)} = Q
              /\ EPOCH_META'[e].leaves_count = Cardinality(Q)
              /\ leaves.len = Cardinality(Q)
              /\ \A w \in Q :
                    /\ EPOCH_WALLET_INDEX'[<<e, w>>] = <<Index(w), Amount(w)>>
                    /\ EPOCH_LAYERS'[leaves.start + Index(w) + 1] =
                          compute_leaf_hash(e, Index(w),
                              decode_wallet_base58(w).bytes, Amount(w))
      ]_vars

\* A build has skipped W1, whose Completed task carries a reward of 0, and
\* given index 0 to W2.
C10_Witness ==
    /\ ret.op = "build_epoch_snapshot" /\ ret.res = "Ok"
    /\ HasStatus(USER_TASKS, "W1", Completed)
    /\ <<ret.epoch, "W1">> \notin DOMAIN EPOCH_WALLET_INDEX
    /\ <<ret.epoch, "W2">> \in DOMAIN EPOCH_WALLET_INDEX
    /\ EPOCH_WALLET_INDEX[<<ret.epoch, "W2">>][1] = 0

\* C11: a successful build_epoch_snapshot(e) tracks the same wallets with the
\* same tasks as before; a task that was Completed in a wallet with an index
\* entry for e is RewardPrepared, and every other task keeps its status; all
\* tasks keep taskid, reward_amount, completed_at and evidence.
C11_BuildFrame ==
    [][(ret'.op = "build_epoch_snapshot" /\ ret'.res = "Ok") =>
          /\ DOMAIN USER_TASKS' = DOMAIN USER_TASKS
          /\ \A w \in DOMAIN USER_TASKS :
                /\ Len(USER_TASKS'[w].tasks) = Len(USER_TASKS[w].tasks)
                /\ \A i \in 1..Len(USER_TASKS[w].tasks) :
                      LET a == USER_TASKS[w].tasks[i]
                          included ==
                              <<ret'.epoch, w>> \in DOMAIN EPOCH_WALLET_INDEX'
                      IN  USER_TASKS'[w].tasks[i] =
                             [a EXCEPT !.status =
                                 IF included /\ a.status = Completed
                                 THEN RewardPrepared ELSE a.status]
      ]_vars

\* A build has prepared W2's completed task, left W2's other task NotStarted
\* and left W1, not included, with its task Completed.
C11_Witness ==
    /\ ret.op = "build_epoch_snapshot" /\ ret.res = "Ok"
    /\ <<ret.epoch, "W2">> \in DOMAIN EPOCH_WALLET_INDEX
    /\ HasStatus(USER_TASKS, "W2", RewardPrepared)
    /\ HasStatus(USER_TASKS, "W2", NotStarted)
    /\ <<ret.epoch, "W1">> \notin DOMAIN EPOCH_WALLET_INDEX
    /\ HasStatus(USER_TASKS, "W1", Completed)

\* C12: mark_claim_result for a wallet without tracked state fails, NotFound
\* when the address is well-formed, and changes nothing; for a tracked wallet
\* it turns every TicketIssued task of the wallet into Claimed on Success and
\* into RewardPrepared on Failed, and changes no other task of the wallet, no
\* other wallet's state and no other store.
C12_ReportEffect ==
    [][(ret'.op = "mark_claim_result") =>
          LET w == ret'.wallet
              target == IF ret'.arg = Success THEN Claimed ELSE RewardPrepared
          IN  /\ w \notin DOMAIN USER_TASKS =>
                    /\ ret'.res = IF decode_wallet_base58(w).ok
                                  THEN "NotFound" ELSE "InvalidAddress"
                    /\ UNCHANGED store
              /\ w \in DOMAIN USER_TASKS =>
                    /\ DOMAIN USER_TASKS' = DOMAIN USER_TASKS
                    /\ \A v \in DOMAIN USER_TASKS \ {w} :
                          USER_TASKS'[v] = USER_TASKS[v]
                    /\ Len(USER_TASKS'[w].tasks) = Len(USER_TASKS[w].tasks)
                    /\ \A i \in 1..Len(USER_TASKS[w].tasks) :
                          LET a == USER_TASKS[w].tasks[i]
                          IN  USER_TASKS'[w].tasks[i] =
                                 [a EXCEPT !.status =
                                     IF a.status = TicketIssued
                                     THEN target ELSE a.status]
                    /\ UNCHANGED <<TASK_CONTRACT, PAYMENTS, EPOCH_META,
                                   EPOCH_WALLET_INDEX, EPOCH_LAYERS,
                                   EPOCH_LAYER_OFFSETS>>
      ]_vars

\* A reported success has claimed a ticket of a wallet that also has a task
\* completed since, while a second wallet is tracked.
C12_Witness ==
    /\ ret.op = "mark_claim_result" /\ ret.res = "Ok" /\ ret.arg = Success
    /\ ret.moved > 0
    /\ HasStatus(USER_TASKS, ret.wallet, Claimed)
    /\ HasStatus(USER_TASKS, ret.wallet, Completed)
    /\ Cardinality(DOMAIN USER_TASKS) = 2

\* C13: mark_claim_result for a well-formed, tracked wallet that has no
\* TicketIssued task returns InvalidState.
C13_ReportWithoutTicket ==
    [][(/\ ret'.op = "mark_claim_result"
        /\ decode_wallet_base58(ret'.wallet).ok
        /\ ret'.wallet \in DOMAIN USER_TASKS
        /\ ~HasStatus(USER_TASKS, ret'.wallet, TicketIssued)) =>
            ret'.res = "InvalidState"
      ]_vars

\* The operations that take a wallet.
WalletOps ==
    {"get_or_init_user_tasks", "record_payment", "complete_task",
     "get_claim_ticket", "mark_claim_result"}

\* C14: every operation that takes a wallet, given a malformed address,
\* returns InvalidAddress and changes nothing of the stores.
C14_MalformedRejected ==
    [][(ret'.op \in WalletOps /\ ~decode_wallet_base58(ret'.wallet).ok) =>
            (ret'.res = "InvalidAddress" /\ UNCHANGED store)
      ]_vars

\* The epochs in which the wallet has an index entry.
EpochsOf(index, w) == {k[1] : k \in {x \in DOMAIN index : x[2] = w}}

\* C15: get_claim_ticket for a wallet without an index entry in any epoch
\* fails, NotFound when the address is well-formed, and changes nothing; a
\* successful get_claim_ticket returns the highest epoch in which the wallet
\* has an index entry, with the index and amount of that entry and the root
\* of that epoch's metadata.
C15_TicketContent ==
    [][(ret'.op = "get_claim_ticket") =>
          LET w == ret'.wallet
              E == EpochsOf(EPOCH_WALLET_INDEX, w)
          IN  /\ E = {} =>
                    /\ ret'.res = IF decode_wallet_base58(w).ok
                                  THEN "NotFound" ELSE "InvalidAddress"
                    /\ UNCHANGED store
              /\ ret'.res = "Ok" =>
                    /\ E # {}
                    /\ LET ticket == ret'.val[1]
                           top == CHOOSE e \in E : \A f \in E : f <= e
                       IN  /\ ticket.epoch = top
                           /\ ticket.wallet = w
                           /\ ticket.index = EPOCH_WALLET_INDEX[<<top, w>>][1]
                           /\ ticket.amount = EPOCH_WALLET_INDEX[<<top, w>>][2]
                           /\ ticket.root = EPOCH_META[top].root
      ]_vars

\* A ticket has been issued for epoch 2 to a wallet that also has a leaf in
\* epoch 1, recorded with a different amount.
C15_Witness ==
    /\ ret.op = "get_claim_ticket" /\ ret.res = "Ok"
    /\ ret.val[1].epoch = 2
    /\ <<1, ret.wallet>> \in DOMAIN EPOCH_WALLET_INDEX
    /\ EPOCH_WALLET_INDEX[<<1, ret.wallet>>][2] # ret.val[1].amount

\* A state as get_or_init_user_tasks creates it, whatever the rewards: one
\* task per registry entry, each NotStarted, not completed, without evidence.
FreshState(state, w, contract) ==
    /\ state.wallet = w
    /\ Len(state.tasks) = Cardinality(DOMAIN contract)
    /\ {state.tasks[i].taskid : i \in 1..Len(state.tasks)} = DOMAIN contract
    /\ \A i \in 1..Len(state.tasks) :
          /\ state.tasks[i].status = NotStarted
          /\ state.tasks[i].completed_at = 0
          /\ state.tasks[i].evidence = None
    /\ state.total_unclaimed = 0

\* What get_or_init_user_tasks does apart from the seeded rewards.
GetOrInitEffect ==
    LET w == ret'.wallet
    IN  /\ w \in DOMAIN USER_TASKS =>
              (UNCHANGED store /\ ret'.val = <<USER_TASKS[w]>>)
        /\ w \notin DOMAIN USER_TASKS =>
              /\ DOMAIN USER_TASKS' = DOMAIN USER_TASKS \cup {w}
              /\ \A v \in DOMAIN USER_TASKS : USER_TASKS'[v] = USER_TASKS[v]
              /\ ret'.val = <<USER_TASKS'[w]>>
              /\ FreshState(USER_TASKS'[w], w, TASK_CONTRACT)
              /\ UNCHANGED <<TASK_CONTRACT, PAYMENTS, EPOCH_META,
                             EPOCH_WALLET_INDEX, EPOCH_LAYERS,
                             EPOCH_LAYER_OFFSETS>>

\* C16 as stated: get_or_init_user_tasks for an untracked wallet stores and
\* returns one NotStarted task per registry entry with completed_at 0 and
\* reward_amount 0, and total_unclaimed 0; for a tracked wallet it returns
\* the stored state and changes nothing.
C16_SeededZero ==
    [][(ret'.op = "get_or_init_user_tasks") =>
          /\ GetOrInitEffect
          /\ ret'.wallet \notin DOMAIN USER_TASKS =>
                \A i \in 1..Len(USER_TASKS'[ret'.wallet].tasks) :
                    USER_TASKS'[ret'.wallet].tasks[i].reward_amount = 0
      ]_vars

\* C16, amended: get_or_init_user_tasks for an untracked wallet stores and
\* returns one NotStarted task per registry entry with completed_at 0 and
\* reward_amount equal to the registry's reward of that task, and
\* total_unclaimed 0; for a tracked wallet it returns the stored state and
\* changes nothing.
C16_SeededFromRegistry ==
    [][(ret'.op = "get_or_init_user_tasks") =>
          /\ GetOrInitEffect
          /\ ret'.wallet \notin DOMAIN USER_TASKS =>
                \A i \in 1..Len(USER_TASKS'[ret'.wallet].tasks) :
                    LET task == USER_TASKS'[ret'.wallet].tasks[i]
                    IN  task.reward_amount = TASK_CONTRACT[task.taskid].reward
      ]_vars

\* An untracked wallet has been given two tasks, the second seeded with the
\* registry's reward 2.
C16_Witness ==
    /\ ret.op = "get_or_init_user_tasks" /\ ret.arg = "untracked"
    /\ Len(ret.val[1].tasks) = 2
    /\ ret.val[1].tasks[2].reward_amount = 2
    /\ USER_TASKS[ret.wallet] = ret.val[1]

\* C17: init_task_contract and build_epoch_snapshot by a caller that is not a
\* controller return PermissionDenied and change nothing of the stores; no
\* step removes a registry entry.
C17_AdminOnly ==
    [][/\ (/\ ret'.op \in {"init_task_contract", "build_epoch_snapshot"}
           /\ ~ret'.admin) =>
              (ret'.res = "PermissionDenied" /\ UNCHANGED store)
       /\ DOMAIN TASK_CONTRACT \subseteq DOMAIN TASK_CONTRACT'
      ]_vars

\* A caller that is not a controller has been refused a build of an epoch
\* that exists, while the registry holds both tasks after an edit of T1.
C17_Witness ==
    /\ ret.op = "build_epoch_snapshot" /\ ~ret.admin
    /\ ret.res = "PermissionDenied"
    /\ ret.epoch \in DOMAIN EPOCH_META
    /\ DOMAIN TASK_CONTRACT = {"T1", "T2"}
    /\ TASK_CONTRACT["T1"].reward = 0

\* The error results of the operations.
Errors ==
    {"PermissionDenied", "NotFound", "AlreadyExists", "InvalidAddress",
     "InvalidState", "Empty"}

\* C18: a step whose call returns an error changes nothing of the stores.
C18_ErrorsChangeNothing ==
    [][ret'.res \in Errors => UNCHANGED store]_vars

\* A build by a controller has failed Empty while a wallet holds a Completed
\* task, of reward 0.
C18_Witness ==
    /\ ret.op = "build_epoch_snapshot" /\ ret.admin /\ ret.res = "Empty"
    /\ \E w \in DOMAIN USER_TASKS : HasStatus(USER_TASKS, w, Completed)
    /\ EPOCH_META = EmptyMap /\ EPOCH_LAYERS = <<>>

\* C19: a build of an epoch by a controller that directly follows an
\* interrupted build of the same epoch, and is not interrupted itself,
\* succeeds; after it, for every wallet
\* with an index entry in that epoch the stored proof of its index, folded
\* onto the hash of its entry, gives the published root; and every wallet
\* with a RewardPrepared task has an index entry in a published epoch, when
\* no other epoch was left unpublished.
C19_RetrySafe ==
    [][(/\ ret.op = "build_epoch_snapshot" /\ ret.res = "Interrupted"
        /\ ret'.op = "build_epoch_snapshot" /\ ret'.admin
        /\ ret'.res # "Interrupted"
        /\ ret'.epoch = ret.epoch) =>
          LET e == ret'.epoch
          IN  /\ ret'.res = "Ok"
              /\ \A w \in AllWallets :
                    <<e, w>> \in DOMAIN EPOCH_WALLET_INDEX' =>
                       LET entry == EPOCH_WALLET_INDEX'[<<e, w>>]
                           proof == generate_merkle_proof(
                                       EPOCH_LAYER_OFFSETS', EPOCH_LAYERS',
                                       e, entry[1])
                       IN  /\ proof.ok
                           /\ FoldProof(
                                 compute_leaf_hash(e, entry[1],
                                     decode_wallet_base58(w).bytes, entry[2]),
                                 proof.proof) = EPOCH_META'[e].root
              /\ (\A k \in DOMAIN EPOCH_WALLET_INDEX :
                     k[1] \in DOMAIN EPOCH_META \cup {e}) =>
                    \A w \in DOMAIN USER_TASKS' :
                        HasStatus(USER_TASKS', w, RewardPrepared) =>
                            \E f \in DOMAIN EPOCH_META' :
                                <<f, w>> \in DOMAIN EPOCH_WALLET_INDEX'
      ]_vars

\* The number of layers stored for an epoch, and the lengths of those layers.
StoredLayers(e) == Cardinality(KeysOf(EPOCH_LAYER_OFFSETS, e))

LayerLens(e) ==
    [l \in 1..StoredLayers(e) |-> EPOCH_LAYER_OFFSETS[<<e, l - 1>>].len]

\* C20: for every published epoch and leaf index, the proof has one entry per
\* stored layer but the last and no entry is the root; an epoch of one leaf
\* has one layer, its root is the leaf hash and its proof is empty; an epoch
\* of three leaves has layers of 3, 2 and 1 nodes, every proof has two
\* entries and the proof of index 2 starts with the hash of leaf 2.
C20_ProofShape ==
    \A e \in DOMAIN EPOCH_META :
        LET n == EPOCH_META[e].leaves_count
        IN  /\ \A i \in 0..(n - 1) :
                  /\ ProofOf(e, i).ok
                  /\ Len(ProofOf(e, i).proof) = StoredLayers(e) - 1
                  /\ \A j \in 1..Len(ProofOf(e, i).proof) :
                        ProofOf(e, i).proof[j] # EPOCH_META[e].root
            /\ n = 1 =>
                  /\ LayerLens(e) = <<1>>
                  /\ EPOCH_META[e].root = LeafOfIndex(e, 0)
                  /\ ProofOf(e, 0).proof = <<>>
            /\ n = 3 =>
                  /\ LayerLens(e) = <<3, 2, 1>>
                  /\ \A i \in 0..2 : Len(ProofOf(e, i).proof) = 2
                  /\ ProofOf(e, 2).proof[1] = LeafOfIndex(e, 2)

\* An epoch of three leaves and an epoch of one leaf have been published.
C20_Witness ==
    \E e, f \in DOMAIN EPOCH_META :
        /\ EPOCH_META[e].leaves_count = 3
        /\ EPOCH_META[f].leaves_count = 1
        /\ Len(ProofOf(e, 2).proof) = 2
        /\ ProofOf(f, 0).proof = <<>>

\* A wallet to which a ticket can be issued: a well-formed address with a
\* leaf in some epoch, a RewardPrepared task and no task TicketIssued or
\* Claimed.
Reissuable(users, index, w) ==
    /\ decode_wallet_base58(w).ok
    /\ EpochsOf(index, w) # {}
    /\ HasStatus(users, w, RewardPrepared)
    /\ ~HoldsTicket(users, w)

\* C21: a mark_claim_result with status Failed for a wallet that holds a
\* TicketIssued task leaves the wallet reissuable; a reissuable wallet stays
\* so through every call that is not a get_claim_ticket for it; and a
\* get_claim_ticket for a reissuable wallet succeeds and turns every
\* RewardPrepared task of the wallet into TicketIssued.
C21_ReissueAfterFailure ==
    [][\A w \in AllWallets :
          /\ (/\ ret'.op = "mark_claim_result" /\ ret'.wallet = w
              /\ ret'.arg = Failed
              /\ HasStatus(USER_TASKS, w, TicketIssued)) =>
                 Reissuable(USER_TASKS', EPOCH_WALLET_INDEX', w)
          /\ (/\ Reissuable(USER_TASKS, EPOCH_WALLET_INDEX, w)
              /\ ~(ret'.op = "get_claim_ticket" /\ ret'.wallet = w)) =>
                 Reissuable(USER_TASKS', EPOCH_WALLET_INDEX', w)
          /\ (/\ Reissuable(USER_TASKS, EPOCH_WALLET_INDEX, w)
              /\ ret'.op = "get_claim_ticket" /\ ret'.wallet = w) =>
                 /\ ret'.res = "Ok"
                 /\ \A i \in 1..Len(USER_TASKS[w].tasks) :
                       USER_TASKS[w].tasks[i].status = RewardPrepared =>
                          USER_TASKS'[w].tasks[i].status = TicketIssued
      ]_vars

\* A ticket has been issued again after a reported failure; it is for
\* epoch 2, the wallet also has a leaf in epoch 1, and two tasks moved.
C21_Witness ==
    /\ ret.op = "get_claim_ticket" /\ ret.res = "Ok"
    /\ ret.wallet \in ret.failed
    /\ ret.moved = 2
    /\ ret.val[1].epoch = 2
    /\ <<1, ret.wallet>> \in DOMAIN EPOCH_WALLET_INDEX

\* The states of the scenario of C22.  ScenarioLeaf is the hash of the leaf
\* {epoch 1, index 0, W1, amount 100}.
ScenarioLeaf ==
    compute_leaf_hash(1, 0, decode_wallet_base58("W1").bytes, 100)

\* Only T1 with reward 100 is defined.
ScenarioRegistry ==
    /\ DOMAIN TASK_CONTRACT = {"T1"}
    /\ TASK_CONTRACT["T1"].reward = 100

NoEpochStored ==
    /\ EPOCH_META = EmptyMap /\ EPOCH_WALLET_INDEX = EmptyMap
    /\ EPOCH_LAYERS = <<>> /\ EPOCH_LAYER_OFFSETS = EmptyMap

\* Epoch 1 is stored with the one leaf of W1 and nothing else is.
ScenarioEpochStored ==
    /\ DOMAIN EPOCH_META = {1}
    /\ EPOCH_META[1].leaves_count = 1
    /\ EPOCH_META[1].root = ScenarioLeaf
    /\ DOMAIN EPOCH_WALLET_INDEX = {<<1, "W1">>}
    /\ EPOCH_WALLET_INDEX[<<1, "W1">>] = <<0, 100>>
    /\ EPOCH_LAYERS = <<ScenarioLeaf>>
    /\ DOMAIN EPOCH_LAYER_OFFSETS = {<<1, 0>>}
    /\ EPOCH_LAYER_OFFSETS[<<1, 0>>] = [start |-> 0, len |-> 1]

\* W1 is the one tracked wallet and T1, with reward 100, its one task.
ScenarioTask(users, status, total) ==
    /\ DOMAIN users = {"W1"}
    /\ Len(users["W1"].tasks) = 1
    /\ users["W1"].tasks[1].taskid = "T1"
    /\ users["W1"].tasks[1].status = status
    /\ users["W1"].tasks[1].reward_amount = 100
    /\ users["W1"].total_unclaimed = total

ScenarioStart == ScenarioRegistry /\ USER_TASKS = EmptyMap /\ NoEpochStored

ScenarioCompleted ==
    ScenarioRegistry /\ ScenarioTask(USER_TASKS, Completed, 0) /\ NoEpochStored

ScenarioBuilt ==
    /\ ScenarioRegistry /\ ScenarioTask(USER_TASKS, RewardPrepared, 100)
    /\ ScenarioEpochStored

ScenarioIssued ==
    /\ ScenarioRegistry /\ ScenarioTask(USER_TASKS, TicketIssued, 100)
    /\ ScenarioEpochStored

ScenarioClaimed ==
    /\ ScenarioRegistry /\ ScenarioTask(USER_TASKS, Claimed, 0)
    /\ ScenarioEpochStored

\* C22: from the empty store with registry {T1: reward 100},
\* complete_task(W1, T1) succeeds and leaves T1 Completed with reward 100;
\* from there build_epoch_snapshot(1) by a controller succeeds and stores the
\* one leaf {epoch 1, index 0, W1, amount 100}, leaf count 1, root the leaf
\* hash; from there get_claim_ticket(W1) succeeds with a ticket of epoch 1,
\* amount 100 and empty proof; from there mark_claim_result(W1, 1, Success)
\* succeeds and leaves T1 Claimed and total_unclaimed 0.
C22_Scenario ==
    [][/\ (/\ ScenarioStart
           /\ ret'.op = "complete_task" /\ ret'.wallet = "W1"
           /\ ret'.taskid = "T1") =>
              /\ ret'.res = "Ok"
              /\ ScenarioCompleted'
              /\ USER_TASKS'["W1"].tasks[1].completed_at = ret'.arg.ts
       /\ (/\ ScenarioCompleted
           /\ ret'.op = "build_epoch_snapshot" /\ ret'.admin
           /\ ret'.epoch = 1) =>
              /\ ret'.res = "Ok"
              /\ ScenarioBuilt'
              /\ ret'.val = <<EPOCH_META'[1]>>
       /\ (/\ ScenarioBuilt
           /\ ret'.op = "get_claim_ticket" /\ ret'.wallet = "W1") =>
              /\ ret'.res = "Ok"
              /\ ScenarioIssued'
              /\ ret'.val = <<[epoch |-> 1, index |-> 0, wallet |-> "W1",
                               amount |-> 100, proof |-> <<>>,
                               root |-> ScenarioLeaf]>>
       /\ (/\ ScenarioIssued
           /\ ret'.op = "mark_claim_result" /\ ret'.wallet = "W1"
           /\ ret'.epoch = 1 /\ ret'.arg = Success) =>
              /\ ret'.res = "Ok"
              /\ ScenarioClaimed'
      ]_vars

\* The scenario has run to its end in four calls after the definition.
C22_Witness ==
    /\ ScenarioClaimed
    /\ ret.op = "mark_claim_result" /\ ret.res = "Ok" /\ ret.moved = 1
    /\ calls = 5

\* Sum of reward_amount over the tasks of w that are st1 in `before` and st2
\* in `after`.
RewardMoved(before, after, w, st1, st2) ==
    IF w \notin DOMAIN before \/ w \notin DOMAIN after THEN 0
    ELSE SumSeq([i \in 1..Len(before[w].tasks) |->
             IF /\ i <= Len(after[w].tasks)
                /\ before[w].tasks[i].status = st1
                /\ after[w].tasks[i].status = st2
             THEN before[w].tasks[i].reward_amount ELSE 0])

\* C23: the amount on the ticket of a successful get_claim_ticket is the sum
\* of reward_amount over the tasks of the wallet that the call moves from
\* RewardPrepared to TicketIssued, which is the wallet's total_unclaimed
\* after the call.
C23_TicketAmount ==
    [][(ret'.op = "get_claim_ticket" /\ ret'.res = "Ok") =>
          /\ ret'.val[1].amount =
                 RewardMoved(USER_TASKS, USER_TASKS', ret'.wallet,
                             RewardPrepared, TicketIssued)
          /\ ret'.wallet \in DOMAIN USER_TASKS' =>
                 ret'.val[1].amount = USER_TASKS'[ret'.wallet].total_unclaimed
      ]_vars

\* Sum of the amounts recorded for w in the epochs of E.
RecordedAmount(index, E, w) ==
    LET es == Ascending({e \in E : <<e, w>> \in DOMAIN index}, LAMBDA e : e)
    IN  SumSeq([i \in 1..Len(es) |-> index[<<es[i], w>>][2]])

\* C24: for every wallet, the sum of its recorded amounts over the epochs
\* that have metadata is the sum of reward_amount over its tasks that are
\* RewardPrepared, TicketIssued or Claimed (0 for a wallet that is not
\* tracked), so no reward is counted in two epochs.
C24_CountedOnce ==
    \A w \in AllWallets :
        RecordedAmount(EPOCH_WALLET_INDEX, DOMAIN EPOCH_META, w) =
            IF w \in DOMAIN USER_TASKS
            THEN RewardIn(USER_TASKS[w].tasks,
                          {RewardPrepared, TicketIssued, Claimed})
            ELSE 0

\* A wallet has amounts recorded in two epochs, one task Claimed and another
\* RewardPrepared.
C24_Witness ==
    \E w \in DOMAIN USER_TASKS :
        /\ Cardinality(EpochsOf(EPOCH_WALLET_INDEX, w)) = 2
        /\ HasStatus(USER_TASKS, w, Claimed)
        /\ HasStatus(USER_TASKS, w, RewardPrepared)

\* C25: for a wallet that has a Claimed task, every step keeps that, a
\* get_claim_ticket for it does not succeed, and a task of it that is
\* TicketIssued or Claimed after the step was Claimed before it; a task
\* completed later can still become RewardPrepared.
C25_ClaimedBlocksTickets ==
    [][\A w \in DOMAIN USER_TASKS :
          HasStatus(USER_TASKS, w, Claimed) =>
             /\ HasStatus(USER_TASKS', w, Claimed)
             /\ (ret'.op = "get_claim_ticket" /\ ret'.wallet = w) =>
                    ret'.res # "Ok"
             /\ \A t \in TaskIds :
                    TaskStatusOf(USER_TASKS', w, t) \in {TicketIssued, Claimed}
                        => TaskStatusOf(USER_TASKS, w, t) = Claimed
      ]_vars

\* A get_claim_ticket has failed InvalidState for a wallet with a Claimed
\* task, a later task RewardPrepared and a leaf in a second epoch.
C25_Witness ==
    /\ ret.op = "get_claim_ticket" /\ ret.res = "InvalidState"
    /\ HasStatus(USER_TASKS, ret.wallet, Claimed)
    /\ HasStatus(USER_TASKS, ret.wallet, RewardPrepared)
    /\ Cardinality(EpochsOf(EPOCH_WALLET_INDEX, ret.wallet)) = 2

\* The result of mark_claim_result as far as its wallet argument decides it.
ReportResult(users, w) ==
    IF ~decode_wallet_base58(w).ok THEN "InvalidAddress"
    ELSE IF w \notin DOMAIN users THEN "NotFound"
    ELSE "Ok"

\* C26: the state and result a mark_claim_result leaves are those the same
\* call leaves with any other epoch argument, built or not: the result is
\* decided by the wallet alone, the epoch stores are unchanged, and the
\* wallet's tasks are those settled with every epoch of Epochs.
C26_EpochIgnored ==
    [][(ret'.op = "mark_claim_result") =>
          /\ ret'.res = ReportResult(USER_TASKS, ret'.wallet)
          /\ UNCHANGED <<TASK_CONTRACT, PAYMENTS, EPOCH_META,
                         EPOCH_WALLET_INDEX, EPOCH_LAYERS,
                         EPOCH_LAYER_OFFSETS>>
          /\ \A e2 \in Epochs :
                USER_TASKS' =
                    IF ReportResult(USER_TASKS, ret'.wallet) = "Ok"
                    THEN StoreTasks(USER_TASKS, ret'.wallet,
                             SettleTasks(USER_TASKS[ret'.wallet].tasks, e2,
                                         ret'.arg))
                    ELSE USER_TASKS
      ]_vars

\* A report has settled a ticket of epoch 1 while naming epoch 2, which was
\* never built.
C26_Witness ==
    /\ ret.op = "mark_claim_result" /\ ret.res = "Ok" /\ ret.moved > 0
    /\ ret.epoch = 2
    /\ DOMAIN EPOCH_META = {1}

====
